---- MODULE Spec2Model ----
(***************************************************************************)
(* Transcode admission and supervision pipeline of the video-note bot:     *)
(* handlers.video_to_circle (ban check, grouped-upload suppressor,         *)
(* per-user lock, validation, global slot) and                             *)
(* video_processing.convert_video_to_circle (download, probe, subprocess   *)
(* supervision with a wall-clock timeout, delivery, cleanup).              *)
(*                                                                         *)
(* One task per submission on a single cooperative event loop: an action   *)
(* is the run of one task from one await to the next.  The metrics store,  *)
(* the messaging client and the transcode subprocess are the environment.  *)
(***************************************************************************)
EXTENDS Integers, Sequences, FiniteSets, TLC

\* ---------------------------------------------------------------- bounds
MaxJobs == 2
MaxUsers == 2
MaxGroups == 1
\* control messages (effect buttons, /ban, /unban) handled in one behaviour
MaxControl == 1
\* seconds of wall-clock time one Tick lets pass
Step == 300
\* the short probed durations the command builders are applied to: 0 .. 7 s
MaxShort == 14
\* the latest reading of the wall clock in the progress loop, in ticks
MaxClock == 8
\* jobs that pass validation in one behaviour of the slot specification
MaxGateJobs == 3
\* the latest reading of the clock, in seconds, and the most user_seen
\* events recorded, in one behaviour of the store specification
MaxStoreClock == 3
MaxSeenEvents == 2

\* ------------------------------------------------------ program constants
SizeLimit == 8 * 1024 * 1024
DurationLimit == 60
MemeDurationLimit == 55
TranscodeTimeout == 300
GroupTtl == 300
\* str(e)[:500]
ErrorTextLimit == 500
\* ticks per second of the builders' and the progress loop's time grid
TicksPerSecond == 2

Jobs == 1..MaxJobs
\* the jobs of the slot specification, each of another user
GateJobs == 1..MaxGateJobs
Users == 1..MaxUsers
Groups == 1..MaxGroups
\* "no value": media_group_id absent, no first message recorded
None == 0

Effects == {"normal", "speed_slow", "flash", "meme", "echo", "shake"}
\* the effect buttons exercised by the lifecycle specification
EffectChoices == {"normal", "meme"}

\* (file_size, duration) of the submitted videos: one on each duration
\* limit, one over the duration limit, one too large and too long
Videos ==
    { <<SizeLimit - 1, MemeDurationLimit>>,
      <<SizeLimit - 1, DurationLimit>>,
      <<SizeLimit - 1, DurationLimit + 1>>,
      <<SizeLimit, DurationLimit + 1>> }

NoMsg == [user |-> None, mid |-> None, group |-> None, size |-> 0, dur |-> 0]
\* no command built yet, no supervision started yet
NoBuild == [effect |-> "none"]
NoProg == [phase |-> "none"]

VARIABLES
    pc,          \* pc[j]: the await at which the task of submission j is suspended
    msg,         \* msg[j]: the message of submission j
    effect,      \* effect[j]: the effect read from _user_effect at validation
    events,      \* events[j]: the metrics events logged for submission j, in order
    queued,      \* queued[j]: number of "queued" notices sent to submission j
    outcome,     \* outcome[j]: the answer or exit path of submission j ("" while open)
    ulocks,      \* _user_locks: a dict, user -> lock
    glock,       \* _global_video_lock
    mgfm,        \* _media_group_first_message: a dict, key -> first message id
    forget,      \* forget[k]: remaining sleep of each pending _forget_media_group(k)
    banned,      \* users.is_banned of the metrics store
    userEffect,  \* _user_effect: a dict, user -> effect
    proc,        \* proc[j]: the transcode subprocess spawned for j
    elapsed,     \* elapsed[j]: seconds the subprocess of j has been alive
    inFile,      \* inFile[j]: input_<uuid>.mp4 of j exists
    outFile,     \* outFile[j]: circle_<uuid>.mp4 of j exists
    control,     \* number of control messages handled so far
    seen,        \* the users upsert_user_seen has recorded
    build,       \* command specification: one command build, inputs and result
    prog,        \* progress specification: the progress loop of one supervision
    gate,        \* slot specification: the jobs at "async with _global_video_lock"
    store        \* store specification: the users table of metrics_db

vars == <<pc, msg, effect, events, queued, outcome, ulocks, glock, mgfm,
          forget, banned, userEffect, proc, elapsed, inFile, outFile, control,
          seen, build, prog, gate, store>>

\* ------------------------------------------------------------ asyncio.Lock
\* locked: _locked; waiters: _waiters (tasks suspended in acquire, in order);
\* woken: the future of the first waiter has its result set;
\* holders: the tasks that are inside "async with" on this lock.
FreeLock == [locked |-> FALSE, waiters |-> <<>>, woken |-> FALSE, holders |-> {}]

\* Lock.locked()
LockedAlwaysFalse(l) == FALSE
Locked(l) == l.locked

\* "async with lock" taking the lock although it is held
TryAcquireNoWait(l, j) ==
    [lock |-> [l EXCEPT !.locked = TRUE, !.holders = @ \cup {j}], got |-> TRUE]
\* "async with lock", up to the first suspension: the lock is taken at once
\* when it is free and nobody waits for it, else the task joins the waiters.
TryAcquire(l, j) ==
    IF ~l.locked /\ l.waiters = <<>>
    THEN [lock |-> [l EXCEPT !.locked = TRUE, !.holders = @ \cup {j}], got |-> TRUE]
    ELSE [lock |-> [l EXCEPT !.waiters = Append(@, j)], got |-> FALSE]

\* a release that wakes nobody
ReleaseNoWake(l, j) == [l EXCEPT !.locked = FALSE, !.holders = @ \ {j}]
\* the lock is kept when the block is left
ReleaseKeepsLock(l, j) == l
\* leaving "async with lock": release() and _wake_up_first()
Release(l, j) ==
    [l EXCEPT !.locked = FALSE, !.holders = @ \ {j}, !.woken = (l.waiters # <<>>)]

\* the woken first waiter resumes inside acquire() and takes the lock
Resume(l, j) ==
    [l EXCEPT !.locked = TRUE, !.waiters = Tail(@), !.woken = FALSE,
              !.holders = @ \cup {j}]

\* the metrics store before any call: no user known
NoStore == [users |-> <<>>, now |-> 1, seenEvents |-> 0,
            op |-> <<"none", None, FALSE>>]
\* no job has reached the global slot yet
NoGate == [lock |-> FreeLock, ulock |-> [j \in GateJobs |-> FreeLock],
           pc |-> [j \in GateJobs |-> "idle"],
           queued |-> [j \in GateJobs |-> 0]]

\* ------------------------------------------------------------------ events
\* len(str(e)[:500]) for an exception text of n characters
StoredLen(n) == IF n > ErrorTextLimit THEN ErrorTextLimit ELSE n
Ev(name, err) == [ev |-> name, err |-> err]
\* metrics_db.log_event guarded by "if user_id"
LogEvent(log, user, name, err) ==
    IF user # None THEN Append(log, Ev(name, err)) ELSE log

Count(log, name) == Cardinality({i \in 1..Len(log) : log[i].ev = name})

\* d[k] = v on a dict
Put(d, k, v) == [x \in (DOMAIN d) \cup {k} |-> IF x = k THEN v ELSE d[x]]
\* a pop that leaves the key in the dict
PopKeeps(d, k) == d
\* d.pop(k, None)
Pop(d, k) == [x \in (DOMAIN d) \ {k} |-> d[x]]
\* d.get(k, default)
Get(d, k, default) == IF k \in DOMAIN d THEN d[k] ELSE default

\* ------------------------------------------------------------- subprocess
\* "none": not spawned; "starting": running, output file not yet opened;
\* "running": running, output file opened; "mute": running with its
\* diagnostic stream closed; "exit0"/"exit1": exited; "killed": killed.
Alive(p) == p \in {"starting", "running", "mute"}
Exited(p) == p \in {"exit0", "exit1", "killed"}

\* --------------------------------------------------------------- validation
\* a ban lookup that never finds a ban
IsBannedNever(u) == FALSE
\* metrics_db.is_banned
IsBanned(u) == u \in banned

GroupPassAll(m) == IF m.group = None THEN "none" ELSE "first"
\* a part with the recorded message id taken for a first part once more
GroupSameIsFirst(m) ==
    IF m.group = None THEN "none"
    ELSE IF m.group \notin DOMAIN mgfm THEN "first"
    ELSE IF mgfm[m.group] # m.mid THEN "duplicate"
    ELSE "first"
\* the grouped-upload check of video_to_circle
GroupVerdict(m) ==
    IF m.group = None THEN "none"
    ELSE IF m.group \notin DOMAIN mgfm THEN "first"
    ELSE IF mgfm[m.group] # m.mid THEN "duplicate"
    ELSE "same"

\* a job that ignores the selection
SelectedEffectNone(u) == "normal"
\* effect = _user_effect.get(user_id, "normal")
SelectedEffect(u) == Get(userEffect, u, "normal")

\* a new lock made for every submission
UserLockFresh(u) == FreeLock
\* lock = _user_locks.get(user_id), a new lock being stored if there is none
UserLock(u) == Get(ulocks, u, FreeLock)

\* an entry recorded only for a first part that passes every check
RecordsGroupIfAccepted(v, gv) == v = "accept" /\ gv = "first"
\* the entry is recorded, and its expiry scheduled, inside the group check:
\* after the ban check and before every other check
RecordsGroup(v, gv) == v # "banned" /\ gv = "first"

\* the checks with the size check moved before the lock check
VerdictSizeBeforeBusy(m) ==
    IF m.user # None /\ IsBanned(m.user) THEN "banned"
    ELSE IF GroupVerdict(m) = "duplicate" THEN "duplicate"
    ELSE IF m.size >= SizeLimit THEN "file_size_limit"
    ELSE IF Locked(Get(ulocks, m.user, FreeLock)) THEN "busy"
    ELSE IF m.dur > DurationLimit THEN "duration_limit"
    ELSE IF Get(userEffect, m.user, "normal") = "meme" /\ m.dur > MemeDurationLimit
         THEN "duration_limit_for_meme"
    ELSE "accept"
\* the checks with a size check that lets a file of exactly the limit pass
VerdictSizeStrict(m) ==
    IF m.user # None /\ IsBanned(m.user) THEN "banned"
    ELSE IF GroupVerdict(m) = "duplicate" THEN "duplicate"
    ELSE IF Locked(Get(ulocks, m.user, FreeLock)) THEN "busy"
    ELSE IF m.size > SizeLimit THEN "file_size_limit"
    ELSE IF m.dur > DurationLimit THEN "duration_limit"
    ELSE IF Get(userEffect, m.user, "normal") = "meme" /\ m.dur > MemeDurationLimit
         THEN "duration_limit_for_meme"
    ELSE "accept"
\* the checks with the meme check using the general duration limit
VerdictMemeAtSixty(m) ==
    IF m.user # None /\ IsBanned(m.user) THEN "banned"
    ELSE IF GroupVerdict(m) = "duplicate" THEN "duplicate"
    ELSE IF Locked(Get(ulocks, m.user, FreeLock)) THEN "busy"
    ELSE IF m.size >= SizeLimit THEN "file_size_limit"
    ELSE IF m.dur > DurationLimit THEN "duration_limit"
    ELSE IF Get(userEffect, m.user, "normal") = "meme" /\ m.dur > DurationLimit
         THEN "duration_limit_for_meme"
    ELSE "accept"
\* the checks with the duration check moved before the size check
VerdictDurationBeforeSize(m) ==
    IF m.user # None /\ IsBanned(m.user) THEN "banned"
    ELSE IF GroupVerdict(m) = "duplicate" THEN "duplicate"
    ELSE IF Locked(Get(ulocks, m.user, FreeLock)) THEN "busy"
    ELSE IF m.dur > DurationLimit THEN "duration_limit"
    ELSE IF m.size >= SizeLimit THEN "file_size_limit"
    ELSE IF Get(userEffect, m.user, "normal") = "meme" /\ m.dur > MemeDurationLimit
         THEN "duration_limit_for_meme"
    ELSE "accept"
\* the checks of video_to_circle in their order; "accept" when all pass
Verdict(m) ==
    IF m.user # None /\ IsBanned(m.user) THEN "banned"
    ELSE IF GroupVerdict(m) = "duplicate" THEN "duplicate"
    ELSE IF Locked(Get(ulocks, m.user, FreeLock)) THEN "busy"
    ELSE IF m.size >= SizeLimit THEN "file_size_limit"
    ELSE IF m.dur > DurationLimit THEN "duration_limit"
    ELSE IF Get(userEffect, m.user, "normal") = "meme" /\ m.dur > MemeDurationLimit
         THEN "duration_limit_for_meme"
    ELSE "accept"

\* a rejection that logs video_start after its own event
RejectLogsStart(m, v) ==
    IF v = "banned" THEN LogEvent(<<>>, m.user, "banned_block", "")
    ELSE IF v \in {"file_size_limit", "duration_limit", "duration_limit_for_meme"}
         THEN LogEvent(LogEvent(<<>>, m.user, "video_rejected", v), m.user, "video_start", "")
    ELSE <<>>
\* the event a rejection logs
RejectEvents(m, v) ==
    IF v = "banned" THEN LogEvent(<<>>, m.user, "banned_block", "")
    ELSE IF v \in {"file_size_limit", "duration_limit", "duration_limit_for_meme"}
         THEN LogEvent(<<>>, m.user, "video_rejected", v)
    ELSE <<>>

\* "async with _global_video_lock" and the entry of convert_video_to_circle
\* up to "await bot.download": video_start is logged when the slot is got.
FromGlobalAcquire(j, gl) ==
    LET r == TryAcquire(gl, j)
    IN  IF r.got THEN [pcv |-> "download", gl |-> r.lock, start |-> TRUE, notice |-> FALSE]
        ELSE [pcv |-> "gwait", gl |-> r.lock, start |-> FALSE, notice |-> FALSE]

\* the body of "async with lock" without the queued notice
FromUserGrantedNoNotice(j, gl) == FromGlobalAcquire(j, gl)
\* the body of "async with lock": the queued notice when the slot reads locked
FromUserGranted(j, gl) ==
    IF Locked(gl)
    THEN [pcv |-> "notice", gl |-> gl, start |-> FALSE, notice |-> TRUE]
    ELSE FromGlobalAcquire(j, gl)

StartEvents(j, m, started) ==
    IF started THEN LogEvent(events[j], m.user, "video_start", "") ELSE events[j]

\* the messages submission j can be: a new message, or an earlier one again
FreshMsgs(j) ==
    { [user |-> u, mid |-> j, group |-> g, size |-> v[1], dur |-> v[2]] :
        u \in Users, g \in Groups \cup {None}, v \in Videos }
Redelivered(j) == { msg[i] : i \in {i \in 1..(j - 1) : pc[i] # "done"} }

Init ==
    /\ pc = [j \in Jobs |-> "idle"]
    /\ msg = [j \in Jobs |-> NoMsg]
    /\ effect = [j \in Jobs |-> "normal"]
    /\ events = [j \in Jobs |-> <<>>]
    /\ queued = [j \in Jobs |-> 0]
    /\ outcome = [j \in Jobs |-> ""]
    /\ ulocks = <<>>
    /\ glock = FreeLock
    /\ mgfm = <<>>
    /\ forget = [k \in Groups |-> <<>>]
    /\ banned = {}
    /\ userEffect = <<>>
    /\ proc = [j \in Jobs |-> "none"]
    /\ elapsed = [j \in Jobs |-> 0]
    /\ inFile = [j \in Jobs |-> FALSE]
    /\ outFile = [j \in Jobs |-> FALSE]
    /\ control = 0
    /\ seen = {}
    /\ build = NoBuild
    /\ prog = NoProg
    /\ gate = NoGate
    /\ store = NoStore

\* video_to_circle from its entry to its first await
Submit(j, m) ==
    /\ pc[j] = "idle"
    /\ \A i \in 1..(j - 1) : pc[i] # "idle"
    /\ LET v == Verdict(m)
           gv == GroupVerdict(m)
           e == SelectedEffect(m.user)
           ua == TryAcquire(UserLock(m.user), j)
           c == FromUserGranted(j, glock)
           inside == v = "accept" /\ ua.got
       IN  /\ msg' = [msg EXCEPT ![j] = m]
           /\ seen' = IF m.user # None THEN seen \cup {m.user} ELSE seen
           /\ mgfm' = IF RecordsGroup(v, gv) THEN Put(mgfm, m.group, m.mid) ELSE mgfm
           /\ forget' = IF RecordsGroup(v, gv)
                        THEN [forget EXCEPT ![m.group] = Append(@, GroupTtl)]
                        ELSE forget
           /\ ulocks' = IF v \in {"banned", "duplicate"} THEN ulocks
                        ELSE IF v = "accept" THEN Put(ulocks, m.user, ua.lock)
                        ELSE Put(ulocks, m.user, UserLock(m.user))
           /\ effect' = [effect EXCEPT ![j] = IF v \in {"duration_limit_for_meme", "accept"}
                                               THEN e ELSE @]
           /\ outcome' = [outcome EXCEPT ![j] = IF v = "accept" THEN "" ELSE v]
           /\ pc' = [pc EXCEPT ![j] = IF v # "accept" THEN "reply"
                                      ELSE IF ua.got THEN c.pcv ELSE "uwait"]
           /\ glock' = IF inside THEN c.gl ELSE glock
           /\ queued' = [queued EXCEPT ![j] = IF inside /\ c.notice THEN @ + 1 ELSE @]
           /\ events' = [events EXCEPT ![j] = IF v # "accept" THEN RejectEvents(m, v)
                                              ELSE StartEvents(j, m, inside /\ c.start)]
    /\ UNCHANGED <<banned, userEffect, proc, elapsed, inFile, outFile, control,
                   build, prog, gate, store>>

\* the task of j ends: its locals (message, effect, start_time) are dropped
EndTask(j) ==
    /\ pc' = [pc EXCEPT ![j] = "done"]
    /\ msg' = [msg EXCEPT ![j] = NoMsg]
    /\ effect' = [effect EXCEPT ![j] = "normal"]
    /\ elapsed' = [elapsed EXCEPT ![j] = 0]

\* "await message.answer(...)" of a rejection returns or raises: the handler ends
ReplyDone(j) ==
    /\ pc[j] = "reply"
    /\ EndTask(j)
    /\ UNCHANGED <<events, queued, outcome, ulocks, glock, mgfm, forget,
                   banned, userEffect, proc, inFile, outFile, control, seen,
                   build, prog, gate, store>>

\* the queued notice returns (ok) or raises: on a raise "async with lock" is left
NoticeDone(j, ok) ==
    /\ pc[j] = "notice"
    /\ LET c == FromGlobalAcquire(j, glock)
       IN  IF ok
           THEN /\ pc' = [pc EXCEPT ![j] = c.pcv]
                /\ glock' = c.gl
                /\ events' = [events EXCEPT ![j] = StartEvents(j, msg[j], c.start)]
                /\ UNCHANGED <<outcome, ulocks, msg, effect, elapsed>>
           ELSE /\ EndTask(j)
                /\ outcome' = [outcome EXCEPT ![j] = "notice_failed"]
                /\ ulocks' = [ulocks EXCEPT ![msg[j].user] = Release(@, j)]
                /\ UNCHANGED <<glock, events>>
    /\ UNCHANGED <<queued, mgfm, forget, banned, userEffect, proc,
                   inFile, outFile, control, seen, build, prog, gate, store>>

\* a task suspended in acquire() is resumed: it was the first waiter and woken
LockGranted(j) ==
    \/ /\ pc[j] = "gwait"
       /\ glock.woken /\ Head(glock.waiters) = j
       /\ glock' = Resume(glock, j)
       /\ pc' = [pc EXCEPT ![j] = "download"]
       /\ events' = [events EXCEPT ![j] = StartEvents(j, msg[j], TRUE)]
       /\ UNCHANGED <<ulocks, queued>>
    \/ /\ pc[j] = "uwait"
       /\ LET l == ulocks[msg[j].user]
              c == FromUserGranted(j, glock)
          IN  /\ l.woken /\ Head(l.waiters) = j
              /\ ulocks' = [ulocks EXCEPT ![msg[j].user] = Resume(l, j)]
              /\ pc' = [pc EXCEPT ![j] = c.pcv]
              /\ glock' = c.gl
              /\ queued' = [queued EXCEPT ![j] = IF c.notice THEN @ + 1 ELSE @]
              /\ events' = [events EXCEPT ![j] = StartEvents(j, msg[j], c.start)]
    /\ UNCHANGED <<msg, effect, outcome, mgfm, forget, banned, userEffect, proc, elapsed,
                   inFile, outFile, control, seen, build, prog, gate, store>>

\* ------------------------------------------------- convert_video_to_circle
gateRest == <<queued, mgfm, forget, banned, userEffect, control, seen, build, prog,
              gate, store>>

\* a finally block that removes nothing
CleanupNever(j) == UNCHANGED <<inFile, outFile>>
\* the finally block: os.remove of both files.  While the subprocess of the
\* job is still alive it holds both files open, and os.remove either unlinks
\* them or raises with the files left in place, depending on the platform.
Cleanup(j) ==
    \/ /\ inFile' = [inFile EXCEPT ![j] = FALSE]
       /\ outFile' = [outFile EXCEPT ![j] = FALSE]
    \/ /\ Alive(proc[j])
       /\ UNCHANGED <<inFile, outFile>>

\* convert_video_to_circle returns or raises, then both "async with" blocks
\* of video_to_circle are left: the global slot first, the user lock second.
ExitConvert(j, oc) ==
    /\ EndTask(j)
    /\ outcome' = [outcome EXCEPT ![j] = oc]
    /\ Cleanup(j)
    /\ glock' = Release(glock, j)
    /\ ulocks' = [ulocks EXCEPT ![msg[j].user] = Release(@, j)]

Stay(j, p) ==
    /\ pc' = [pc EXCEPT ![j] = p]
    /\ UNCHANGED <<msg, effect, elapsed, outcome, glock, ulocks, inFile, outFile>>

\* "except Exception": video_error is logged with str(e)[:500], then the
\* status message, when there is one, is edited.
\* an exception handler that records nothing
RaiseTextSilent(j, hasStatus, text) ==
    /\ UNCHANGED events
    /\ IF hasStatus
       THEN /\ pc' = [pc EXCEPT ![j] = "exc_edit"]
            /\ outcome' = [outcome EXCEPT ![j] = pc[j]]
            /\ UNCHANGED <<msg, effect, elapsed, glock, ulocks, inFile, outFile>>
       ELSE ExitConvert(j, "exception")
\* text stands for str(e)[:500] of the exception: "ValueError" for the
\* float() of the duration probe, "exception" for any other.  While the
\* handler edits the status, outcome[j] names the await that raised.
RaiseText(j, hasStatus, text) ==
    /\ events' = [events EXCEPT ![j] = LogEvent(@, msg[j].user, "video_error", text)]
    /\ IF hasStatus
       THEN /\ pc' = [pc EXCEPT ![j] = "exc_edit"]
            /\ outcome' = [outcome EXCEPT ![j] = pc[j]]
            /\ UNCHANGED <<msg, effect, elapsed, glock, ulocks, inFile, outFile>>
       ELSE ExitConvert(j, "exception")
Raise(j, hasStatus) == RaiseText(j, hasStatus, "exception")

\* "await bot.download(...)" returns with the input file written, or raises
DownloadDone(j, ok) ==
    /\ pc[j] = "download"
    /\ IF ok
       THEN /\ pc' = [pc EXCEPT ![j] = "probe"]
            /\ inFile' = [inFile EXCEPT ![j] = TRUE]
            /\ UNCHANGED <<msg, effect, elapsed, outcome, glock, ulocks, outFile, events>>
       ELSE Raise(j, FALSE)
    /\ UNCHANGED proc
    /\ UNCHANGED gateRest

\* "await get_duration(...)": float() raises on non-numeric output
ProbeDone(j, ok) ==
    /\ pc[j] = "probe"
    /\ IF ok THEN Stay(j, "audio") /\ UNCHANGED events
       ELSE RaiseText(j, FALSE, "ValueError")
    /\ UNCHANGED proc
    /\ UNCHANGED gateRest

\* "await has_audio(...)"
AudioDone(j, ok) ==
    /\ pc[j] = "audio"
    /\ IF ok THEN Stay(j, "status") /\ UNCHANGED events ELSE Raise(j, FALSE)
    /\ UNCHANGED proc
    /\ UNCHANGED gateRest

\* "await message.answer(...)" of the status message, then the command is
\* built and the subprocess is being created
StatusDone(j, ok) ==
    /\ pc[j] = "status"
    /\ IF ok THEN Stay(j, "spawn") /\ UNCHANGED events ELSE Raise(j, FALSE)
    /\ UNCHANGED proc
    /\ UNCHANGED gateRest

\* the head of "while True": the wall-clock check, then the next readline.
\* process.kill() raises ProcessLookupError when the process has exited.
LoopTop(j) ==
    IF elapsed[j] > TranscodeTimeout
    THEN IF Alive(proc[j])
         THEN /\ proc' = [proc EXCEPT ![j] = "killed"]
              /\ Stay(j, "kill_wait")
              /\ UNCHANGED events
         ELSE /\ Raise(j, TRUE)
              /\ UNCHANGED proc
    ELSE /\ Stay(j, "read")
         /\ UNCHANGED <<events, proc>>

\* "await asyncio.create_subprocess_shell(...)"
SpawnDone(j, ok) ==
    /\ pc[j] = "spawn"
    /\ IF ok
       THEN /\ proc' = [proc EXCEPT ![j] = "starting"]
            /\ Stay(j, "read")
            /\ UNCHANGED events
       ELSE /\ Raise(j, TRUE)
            /\ UNCHANGED proc
    /\ UNCHANGED gateRest

\* readline gives a line without a progress timestamp, or times out after 1 s
ReadNoProgress(j) ==
    /\ pc[j] = "read"
    /\ proc[j] \in {"starting", "running"}
    /\ LoopTop(j)
    /\ UNCHANGED gateRest

\* readline gives a progress line: the status is edited when the last edit
\* is at least a second old (due), else the loop goes on
ReadProgress(j, due) ==
    /\ pc[j] = "read"
    /\ proc[j] = "running"
    /\ IF due
       THEN Stay(j, "progress_edit") /\ UNCHANGED <<events, proc>>
       ELSE LoopTop(j)
    /\ UNCHANGED gateRest

\* the progress edit returns or raises
ProgressEditDone(j, ok) ==
    /\ pc[j] = "progress_edit"
    /\ IF ok THEN LoopTop(j) ELSE Raise(j, TRUE) /\ UNCHANGED proc
    /\ UNCHANGED gateRest

\* a non-zero return code sending the job back to the spawn
AfterWaitRetry(j) ==
    IF proc[j] = "exit0" THEN Stay(j, "deliver") ELSE Stay(j, "spawn")
\* after "await process.wait()": the return code decides
AfterWait(j) ==
    IF proc[j] = "exit0" THEN Stay(j, "deliver") ELSE Stay(j, "fail_edit")

\* readline gives b"": the stream is at its end; "await process.wait()"
ReadEof(j) ==
    /\ pc[j] = "read"
    /\ proc[j] \in {"mute", "exit0", "exit1"}
    /\ IF Exited(proc[j]) THEN AfterWait(j) ELSE Stay(j, "wait_exit")
    /\ UNCHANGED <<events, proc>>
    /\ UNCHANGED gateRest

\* process.wait() returns once the subprocess has exited
WaitExitDone(j) ==
    /\ pc[j] = "wait_exit"
    /\ Exited(proc[j])
    /\ AfterWait(j)
    /\ UNCHANGED <<events, proc>>
    /\ UNCHANGED gateRest

\* the wait after process.kill() returns: the timeout text is being sent
KillWaitDone(j) ==
    /\ pc[j] = "kill_wait"
    /\ Stay(j, "timeout_edit")
    /\ UNCHANGED <<events, proc>>
    /\ UNCHANGED gateRest

\* the edit of the timeout text returns or raises
TimeoutEditDone(j, ok) ==
    /\ pc[j] = "timeout_edit"
    /\ IF ok
       THEN /\ events' = [events EXCEPT ![j] =
                            LogEvent(@, msg[j].user, "video_error", "timeout_5m")]
            /\ ExitConvert(j, "timeout")
       ELSE Raise(j, TRUE)
    /\ UNCHANGED proc
    /\ UNCHANGED gateRest

\* the edit of the failure text returns or raises
FailEditDone(j, ok) ==
    /\ pc[j] = "fail_edit"
    /\ IF ok
       THEN /\ events' = [events EXCEPT ![j] =
                            LogEvent(@, msg[j].user, "video_error", "ffmpeg_nonzero_returncode")]
            /\ ExitConvert(j, "transcode_failed")
       ELSE Raise(j, TRUE)
    /\ UNCHANGED proc
    /\ UNCHANGED gateRest

\* "await message.answer_video_note(...)" returns or raises
DeliverDone(j, ok) ==
    /\ pc[j] = "deliver"
    /\ IF ok
       THEN /\ events' = [events EXCEPT ![j] = LogEvent(@, msg[j].user, "video_success", "")]
            /\ Stay(j, "final_edit")
       ELSE Raise(j, TRUE)
    /\ UNCHANGED proc
    /\ UNCHANGED gateRest

\* the edit of the "done" text returns or raises
FinalEditDone(j, ok) ==
    /\ pc[j] = "final_edit"
    /\ IF ok THEN ExitConvert(j, "success") /\ UNCHANGED events ELSE Raise(j, TRUE)
    /\ UNCHANGED proc
    /\ UNCHANGED gateRest

\* the edit inside "except Exception" returns, or raises out of the function
ExcEditDone(j, ok) ==
    /\ pc[j] = "exc_edit"
    /\ ExitConvert(j, IF ok THEN "exception" ELSE "raised")
    /\ UNCHANGED <<events, proc>>
    /\ UNCHANGED gateRest

\* ------------------------------------------------------------ environment
jobVars == <<pc, msg, effect, events, queued, outcome, ulocks, glock, build, prog,
             gate, store>>
envRest == <<mgfm, forget, banned, userEffect, control, seen>>

\* the subprocess opens its output file
ProcOpenOutput(j) ==
    /\ proc[j] = "starting"
    /\ proc' = [proc EXCEPT ![j] = "running"]
    /\ outFile' = [outFile EXCEPT ![j] = TRUE]
    /\ UNCHANGED <<elapsed, inFile>>
    /\ UNCHANGED envRest
    /\ UNCHANGED jobVars

\* the subprocess closes its diagnostic stream and keeps running; only the
\* reader of the stream can tell, so the step is taken while the job reads
ProcCloseStderr(j) ==
    /\ proc[j] = "running"
    /\ pc[j] # "done"
    /\ proc' = [proc EXCEPT ![j] = "mute"]
    /\ UNCHANGED <<elapsed, inFile, outFile>>
    /\ UNCHANGED envRest
    /\ UNCHANGED jobVars

\* the subprocess exits: with code 0 only after it has written its output
ProcExit(j, code) ==
    /\ Alive(proc[j])
    /\ code = 0 => proc[j] # "starting"
    /\ proc' = [proc EXCEPT ![j] = IF code = 0 THEN "exit0" ELSE "exit1"]
    /\ UNCHANGED <<elapsed, inFile, outFile>>
    /\ UNCHANGED envRest
    /\ UNCHANGED jobVars

\* _forget_media_group: "await asyncio.sleep(300)" is over, the key is popped
ForgetFire(k) ==
    /\ forget[k] # <<>>
    /\ Head(forget[k]) = 0
    /\ forget' = [forget EXCEPT ![k] = Tail(@)]
    /\ mgfm' = Pop(mgfm, k)
    /\ UNCHANGED <<banned, userEffect, proc, elapsed, inFile, outFile, control, seen>>
    /\ UNCHANGED jobVars

Max(a, b) == IF a > b THEN a ELSE b

\* time.time() - start_time is read by the loop of the job only
Watched(j) == Alive(proc[j]) /\ pc[j] # "done" /\ elapsed[j] <= TranscodeTimeout

\* Step seconds pass: every supervised subprocess ages, every sleep gets
\* shorter.  A sleep that is over lets its task run before more time passes.
Tick ==
    /\ \A k \in Groups : \A i \in 1..Len(forget[k]) : forget[k][i] > 0
    /\ \/ \E j \in Jobs : Watched(j)
       \/ \E k \in Groups : forget[k] # <<>>
    /\ elapsed' = [j \in Jobs |-> IF Watched(j) THEN elapsed[j] + Step ELSE elapsed[j]]
    /\ forget' = [k \in Groups |->
                    [i \in 1..Len(forget[k]) |-> Max(forget[k][i] - Step, 0)]]
    /\ UNCHANGED <<mgfm, banned, userEffect, proc, inFile, outFile, control, seen>>
    /\ UNCHANGED jobVars

\* the admin bot, another process on the same store: /ban and /unban
SetBanned(u, b) ==
    /\ control < MaxControl
    /\ \E j \in Jobs : pc[j] = "idle"
    /\ control' = control + 1
    /\ banned' = IF b THEN banned \cup {u} ELSE banned \ {u}
    /\ banned' # banned
    /\ UNCHANGED <<mgfm, forget, userEffect, proc, elapsed, inFile, outFile, seen>>
    /\ UNCHANGED jobVars

\* set_effect_normal, set_effect_meme, ...: the effect buttons
SetEffect(u, e) ==
    /\ control < MaxControl
    /\ \E j \in Jobs : pc[j] = "idle"
    /\ control' = control + 1
    /\ Get(userEffect, u, "") # e
    /\ userEffect' = Put(userEffect, u, e)
    /\ seen' = seen \cup {u}
    /\ UNCHANGED <<mgfm, forget, banned, proc, elapsed, inFile, outFile>>
    /\ UNCHANGED jobVars

Next ==
    \/ \E j \in Jobs : \E m \in FreshMsgs(j) \cup Redelivered(j) : Submit(j, m)
    \/ \E j \in Jobs : ReplyDone(j)
    \/ \E j \in Jobs, ok \in BOOLEAN : NoticeDone(j, ok)
    \/ \E j \in Jobs : LockGranted(j)
    \/ \E j \in Jobs, ok \in BOOLEAN : DownloadDone(j, ok)
    \/ \E j \in Jobs, ok \in BOOLEAN : ProbeDone(j, ok)
    \/ \E j \in Jobs, ok \in BOOLEAN : AudioDone(j, ok)
    \/ \E j \in Jobs, ok \in BOOLEAN : StatusDone(j, ok)
    \/ \E j \in Jobs, ok \in BOOLEAN : SpawnDone(j, ok)
    \/ \E j \in Jobs : ReadNoProgress(j)
    \/ \E j \in Jobs, due \in BOOLEAN : ReadProgress(j, due)
    \/ \E j \in Jobs, ok \in BOOLEAN : ProgressEditDone(j, ok)
    \/ \E j \in Jobs : ReadEof(j)
    \/ \E j \in Jobs : WaitExitDone(j)
    \/ \E j \in Jobs : KillWaitDone(j)
    \/ \E j \in Jobs, ok \in BOOLEAN : TimeoutEditDone(j, ok)
    \/ \E j \in Jobs, ok \in BOOLEAN : FailEditDone(j, ok)
    \/ \E j \in Jobs, ok \in BOOLEAN : DeliverDone(j, ok)
    \/ \E j \in Jobs, ok \in BOOLEAN : FinalEditDone(j, ok)
    \/ \E j \in Jobs, ok \in BOOLEAN : ExcEditDone(j, ok)
    \/ \E j \in Jobs : ProcOpenOutput(j)
    \/ \E j \in Jobs : ProcCloseStderr(j)
    \/ \E j \in Jobs, code \in {0, 1} : ProcExit(j, code)
    \/ \E k \in Groups : ForgetFire(k)
    \/ Tick
    \/ \E u \in Users, b \in BOOLEAN : SetBanned(u, b)
    \/ \E u \in Users, e \in EffectChoices : SetEffect(u, e)

Spec == Init /\ [][Next]_vars

\* every step the task of submission j takes once its await is over
JobStep(j) ==
    \/ ReplyDone(j)
    \/ \E ok \in BOOLEAN : NoticeDone(j, ok)
    \/ LockGranted(j)
    \/ \E ok \in BOOLEAN : DownloadDone(j, ok)
    \/ \E ok \in BOOLEAN : ProbeDone(j, ok)
    \/ \E ok \in BOOLEAN : AudioDone(j, ok)
    \/ \E ok \in BOOLEAN : StatusDone(j, ok)
    \/ \E ok \in BOOLEAN : SpawnDone(j, ok)
    \/ ReadNoProgress(j)
    \/ \E due \in BOOLEAN : ReadProgress(j, due)
    \/ \E ok \in BOOLEAN : ProgressEditDone(j, ok)
    \/ ReadEof(j)
    \/ WaitExitDone(j)
    \/ KillWaitDone(j)
    \/ \E ok \in BOOLEAN : TimeoutEditDone(j, ok)
    \/ \E ok \in BOOLEAN : FailEditDone(j, ok)
    \/ \E ok \in BOOLEAN : DeliverDone(j, ok)
    \/ \E ok \in BOOLEAN : FinalEditDone(j, ok)
    \/ \E ok \in BOOLEAN : ExcEditDone(j, ok)

\* fair scheduling: the event loop resumes every task whose await is over,
\* every awaited call of the messaging client and of the probe returns or
\* raises, time passes and a sleep that is over wakes its task.  Nothing
\* obliges the transcode subprocess to produce output or to exit.
FairSpec ==
    /\ Spec
    /\ \A j \in Jobs : WF_vars(JobStep(j))
    /\ \A k \in Groups : WF_vars(ForgetFire(k))
    /\ WF_vars(Tick)

\* ------------------------------------------------------- command building
\* Durations and instants of the command builders are counted in ticks of
\* half a second, the coarsest grid on which every literal of the builders
\* (1.5, 2.0, 3.0, 5.0, 60.0) is a whole number.
Sec(n) == n * TicksPerSecond
\* min(duration, 60.0)
CapLimit == Sec(60)
\* seg_len = 1.5
SegLen == (3 * TicksPerSecond) \div 2
\* effective_duration < 3.0
SpeedSlowMin == Sec(3)
\* flash_len = 3.0
FlashLen == Sec(3)
\* meme_len = 5.0
MemeLen == Sec(5)
\* effective_duration - 2.0
EndWindow == Sec(2)

Min(a, b) == IF a < b THEN a ELSE b

\* the effects _build_ffmpeg_cmd and _build_meme_insert_cmd know
BuildEffects == Effects \cup {"speed"}
\* probed durations a command is built for
BuildDurations ==
    (0..MaxShort) \cup {CapLimit - 1, CapLimit, CapLimit + 1, CapLimit + MemeLen}

\* random.uniform(lo, hi) on the grid
Uniform(lo, hi) == lo..hi

\* one ffmpeg command line: the filter graph it uses, the instants written
\* into the graph, its audio options, and the value of -t
Cmd(kind, args, audio, t) ==
    [kind |-> kind, args |-> args, audio |-> audio, t |-> t]
\* raise RuntimeError("meme effect must be handled by _build_meme_insert_cmd")
RuntimeError == Cmd("RuntimeError", <<>>, "", 0)

EffectiveDurationRaw(duration) == duration
EffectiveDuration(duration) == Min(duration, CapLimit)

SpeedSlowAppliesAnyLength(eff, with_audio) == with_audio
\* neither branch of lines 69-72 downgrades
SpeedSlowApplies(eff, with_audio) == ~(eff < SpeedSlowMin) /\ with_audio

\* if abs(t2 - t1) < seg_len: t2 = min(t1 + seg_len, max_start)
SecondStart(t1, t2, max_start) ==
    IF t2 - t1 < SegLen THEN Min(t1 + SegLen, max_start) ELSE t2

\* the speed_slow instants <<t1, t1_end, t2, t2_end>> for the draws x, y
SpeedSlowSegments(eff, x, y) ==
    LET max_start == Max(eff - SegLen, 0)
        t1 == IF y < x THEN y ELSE x
        t2s == IF y < x THEN x ELSE y
        t2 == SecondStart(t1, t2s, max_start)
    IN <<t1, Min(t1 + SegLen, eff), t2, Min(t2 + SegLen, eff)>>

\* _build_ffmpeg_cmd; x and y are the values random.uniform returns, in the
\* order the builder asks for them
BuildFfmpegCmd(duration, eff_name, with_audio, flash_exists, x, y) ==
    LET effective_duration == EffectiveDuration(duration)
        out_duration == effective_duration
        end_start == Max(effective_duration - EndWindow, 0)
        flash_max_start == Max(effective_duration - FlashLen, 0)
        flash_start == IF flash_max_start > 0 THEN x ELSE 0
        flash_end == Min(flash_start + FlashLen, effective_duration)
        seg == SpeedSlowSegments(effective_duration, x, y)
        \* lines 161-185 for the effect left after the downgrades
        plain(e) ==
            Cmd(IF e = "shake" THEN "shake" ELSE "plain",
                IF e = "shake" THEN <<end_start>> ELSE <<>>,
                IF with_audio
                THEN (IF e = "echo" THEN "echo aac" ELSE "aac")
                ELSE "an",
                out_duration)
    IN  CASE eff_name = "speed_slow"
               /\ SpeedSlowApplies(effective_duration, with_audio) ->
               Cmd("speed_slow", seg \o <<effective_duration>>, "map a",
                   out_duration)
          [] eff_name = "flash" /\ with_audio /\ flash_exists ->
               Cmd("flash",
                   <<effective_duration, FlashLen, flash_start, flash_end>>,
                   "map 0:a?", out_duration)
          [] eff_name = "speed" /\ with_audio ->
               Cmd("speed", <<end_start, effective_duration>>, "map a",
                   out_duration)
          [] eff_name \in {"speed_slow", "flash", "speed"} -> plain("normal")
          [] eff_name = "meme" -> RuntimeError
          [] OTHER -> plain(eff_name)

MemeOutDurationUncapped(effective_duration) == effective_duration + MemeLen
\* out_duration = min(60.0, effective_duration + meme_len)
MemeOutDuration(effective_duration) ==
    Min(CapLimit, effective_duration + MemeLen)

\* _build_meme_insert_cmd; memes_exist: _get_memes_dir found a directory
\* that holds at least one *.mp4
BuildMemeInsertCmd(duration, with_audio, memes_exist, x) ==
    LET effective_duration == EffectiveDuration(duration)
        out_duration == MemeOutDuration(effective_duration)
        insert_at == IF effective_duration > 0 THEN x ELSE 0
    IN  IF ~with_audio
        THEN BuildFfmpegCmd(duration, "normal", FALSE, TRUE, 0, 0)
        ELSE IF ~memes_exist
        THEN BuildFfmpegCmd(duration, "normal", with_audio, TRUE, 0, 0)
        ELSE Cmd("meme", <<effective_duration, MemeLen, insert_at>>, "map a",
                 out_duration)

\* a dispatch that hands every effect to _build_ffmpeg_cmd
BuildForOneBuilder(e, d, a, fa, ma, x, y) == BuildFfmpegCmd(d, e, a, fa, x, y)
\* the builder convert_video_to_circle chooses for the effect
BuildFor(e, d, a, fa, ma, x, y) ==
    IF e = "meme"
    THEN BuildMemeInsertCmd(d, a, ma, x)
    ELSE BuildFfmpegCmd(d, e, a, fa, x, y)

\* the values the first and the second random.uniform call can return; {0}
\* where the builder returns before the call
FirstDraws(e, d, a, ma) ==
    LET eff == EffectiveDuration(d)
    IN  CASE e = "speed_slow" /\ SpeedSlowApplies(eff, a) ->
               Uniform(0, Max(eff - SegLen, 0))
          [] e = "flash" /\ a /\ Max(eff - FlashLen, 0) > 0 ->
               Uniform(0, Max(eff - FlashLen, 0))
          [] e = "meme" /\ a /\ ma /\ eff > 0 -> Uniform(0, eff)
          [] OTHER -> {0}
SecondDraws(e, d, a) ==
    LET eff == EffectiveDuration(d)
    IN  IF e = "speed_slow" /\ SpeedSlowApplies(eff, a)
        THEN Uniform(0, Max(eff - SegLen, 0))
        ELSE {0}

\* the events convert_video_to_circle records between the status message
\* and the spawn, while it builds the command: none
BuildEvents(e, d, a, fa, ma) == <<>>

\* convert_video_to_circle builds the one command of a job whose probe gave
\* duration d and audio presence a, with the stock assets present or not
BuildCommand(e, d, a, fa, ma, x, y) ==
    /\ build = NoBuild
    /\ build' = [effect |-> e, duration |-> d, audio |-> a, flash |-> fa,
                 memes |-> ma, x |-> x, y |-> y,
                 cmd |-> BuildFor(e, d, a, fa, ma, x, y),
                 logged |-> BuildEvents(e, d, a, fa, ma)]
    /\ UNCHANGED <<pc, msg, effect, events, queued, outcome, ulocks, glock,
                   mgfm, forget, banned, userEffect, proc, elapsed, inFile,
                   outFile, control, seen, prog, gate, store>>

BuildNext ==
    /\ build = NoBuild
    /\ \E e \in BuildEffects, d \in BuildDurations, a, fa, ma \in BOOLEAN :
        \E x \in FirstDraws(e, d, a, ma), y \in SecondDraws(e, d, a) :
            BuildCommand(e, d, a, fa, ma, x, y)

\* the command builders applied to every input of the bounded sets
BuildSpec == Init /\ [][BuildNext]_vars

\* ---------------------------------------------------------- progress loop
\* now - last_update >= 1
OneSecond == Sec(1)
\* time.time() of a running system lies far more than one second after the
\* epoch, so the first progress line is always due against last_update = 0;
\* the clock of a supervision starts at the least reading with that property
ClockStart == OneSecond
\* last_update = 0
NoUpdate == 0
\* nothing pushed yet
NoPush == -1
\* the probed durations and the effects a supervision is started for
ProgDurations == {0, Sec(2), Sec(10)}
ProgEffects == {"normal", "meme"}
\* the time= stamps the subprocess can print while it writes an output of
\* the given length
Stamps(target) == 0..(target + 1)

\* percent = min(int(current / duration * 100), 100), for duration > 0
Percent(current, duration) == Min((current * 100) \div duration, 100)
\* filled = int(size * percent / 100), size = 10
ProgressBar(percent) == (10 * percent) \div 100

DueAlways(now, last_update) == TRUE
\* if now - last_update >= 1
Due(now, last_update) == now - last_update >= OneSecond

\* the subprocess of a job is spawned and the loop is entered: duration is
\* the probed duration, target the -t of the command that was built
ProgressStart(e, d, a) ==
    /\ prog = NoProg
    /\ prog' = [phase |-> "read", duration |-> d,
                target |-> BuildFor(e, d, a, TRUE, TRUE, 0, 0).t,
                now |-> ClockStart, last_update |-> NoUpdate,
                percent |-> NoPush, bar |-> NoPush, stamp |-> NoPush,
                at |-> NoPush, prev |-> NoPush]
    /\ UNCHANGED <<pc, msg, effect, events, queued, outcome, ulocks, glock,
                   mgfm, forget, banned, userEffect, proc, elapsed, inFile,
                   outFile, control, seen, build, gate, store>>

\* half a second of wall-clock time passes, in a readline or in an edit
ClockTick ==
    /\ prog # NoProg
    /\ prog.phase \in {"read", "edit"}
    /\ prog.now < MaxClock
    /\ prog' = [prog EXCEPT !.now = @ + 1]
    /\ UNCHANGED <<pc, msg, effect, events, queued, outcome, ulocks, glock,
                   mgfm, forget, banned, userEffect, proc, elapsed, inFile,
                   outFile, control, seen, build, gate, store>>

\* readline returns a line that carries time=<current>: the percentage is
\* computed (a zero duration raises ZeroDivisionError) and, when an update
\* is due, pushed together with its bar
ProgressLine(current) ==
    /\ prog # NoProg
    /\ prog.phase = "read"
    /\ current \in Stamps(prog.target)
    /\ prog' =
         IF prog.duration = 0
         THEN [prog EXCEPT !.phase = "raised"]
         ELSE IF Due(prog.now, prog.last_update)
         THEN [prog EXCEPT !.phase = "edit",
                           !.percent = Percent(current, prog.duration),
                           !.bar = ProgressBar(Percent(current, prog.duration)),
                           !.stamp = current,
                           !.prev = prog.at,
                           !.at = prog.now]
         ELSE prog
    /\ UNCHANGED <<pc, msg, effect, events, queued, outcome, ulocks, glock,
                   mgfm, forget, banned, userEffect, proc, elapsed, inFile,
                   outFile, control, seen, build, gate, store>>

\* the edit of the status message returns (last_update = now, the reading
\* taken before the edit) or raises
ProgressPushed(ok) ==
    /\ prog # NoProg
    /\ prog.phase = "edit"
    /\ prog' = IF ok
               THEN [prog EXCEPT !.phase = "read", !.last_update = prog.at]
               ELSE [prog EXCEPT !.phase = "raised"]
    /\ UNCHANGED <<pc, msg, effect, events, queued, outcome, ulocks, glock,
                   mgfm, forget, banned, userEffect, proc, elapsed, inFile,
                   outFile, control, seen, build, gate, store>>

\* readline returns b"": the subprocess closed its stderr
StreamClosed ==
    /\ prog # NoProg
    /\ prog.phase = "read"
    /\ prog' = [prog EXCEPT !.phase = "eof"]
    /\ UNCHANGED <<pc, msg, effect, events, queued, outcome, ulocks, glock,
                   mgfm, forget, banned, userEffect, proc, elapsed, inFile,
                   outFile, control, seen, build, gate, store>>

ProgressNext ==
    \/ \E e \in ProgEffects, d \in ProgDurations, a \in BOOLEAN :
           ProgressStart(e, d, a)
    \/ ClockTick
    \/ \E c \in Stamps(CapLimit) : ProgressLine(c)
    \/ \E ok \in BOOLEAN : ProgressPushed(ok)
    \/ StreamClosed

\* the progress loop of one supervision, for every stream of progress lines
ProgressSpec == Init /\ [][ProgressNext]_vars

\* ----------------------------------------------------------- global slot
\* "async with lock" of video_to_circle and its body, for jobs of different
\* users, each of which has passed validation: gate.ulock[j] is the lock of
\* the user of j, which the lock check has just found unlocked.
\* convert_video_to_circle is one await here; pc values are those of the
\* lifecycle: "notice", "gwait", "download" (inside convert), "done".
lifecycle == <<pc, msg, effect, events, queued, outcome, ulocks, glock, mgfm,
               forget, banned, userEffect, proc, elapsed, inFile, outFile,
               control, seen>>

\* job j enters "async with lock" and runs to its first await
GateEnter(j) ==
    /\ gate.pc[j] = "idle"
    /\ LET c == FromUserGranted(j, gate.lock)
       IN  gate' = [lock |-> c.gl,
                    ulock |-> [gate.ulock EXCEPT
                                  ![j] = TryAcquire(@, j).lock],
                    pc |-> [gate.pc EXCEPT ![j] = c.pcv],
                    queued |-> [gate.queued EXCEPT ![j] =
                                   IF c.notice THEN @ + 1 ELSE @]]
    /\ UNCHANGED <<lifecycle, build, prog, store>>

\* the queued notice of j returns (ok) or raises
GateNoticeDone(j, ok) ==
    /\ gate.pc[j] = "notice"
    /\ LET c == FromGlobalAcquire(j, gate.lock)
       IN  gate' = IF ok
                   THEN [gate EXCEPT !.lock = c.gl, !.pc[j] = c.pcv]
                   ELSE [gate EXCEPT !.pc[j] = "done",
                                     !.ulock[j] = Release(@, j)]
    /\ UNCHANGED <<lifecycle, build, prog, store>>

\* the woken first waiter j resumes inside acquire() and takes the slot
GateGranted(j) ==
    /\ gate.pc[j] = "gwait"
    /\ gate.lock.woken /\ Head(gate.lock.waiters) = j
    /\ gate' = [gate EXCEPT !.lock = Resume(gate.lock, j), !.pc[j] = "download"]
    /\ UNCHANGED <<lifecycle, build, prog, store>>

\* convert_video_to_circle of j returns or raises: both "async with" blocks
\* are left, the global slot first, the user lock second
GateLeave(j) ==
    /\ gate.pc[j] = "download"
    /\ gate' = [gate EXCEPT !.lock = Release(gate.lock, j),
                            !.ulock[j] = Release(@, j),
                            !.pc[j] = "done"]
    /\ UNCHANGED <<lifecycle, build, prog, store>>

GateStep(j) ==
    \/ \E ok \in BOOLEAN : GateNoticeDone(j, ok)
    \/ GateGranted(j)
    \/ GateLeave(j)

GateNext ==
    \/ \E j \in GateJobs : GateEnter(j)
    \/ \E j \in GateJobs, ok \in BOOLEAN : GateNoticeDone(j, ok)
    \/ \E j \in GateJobs : GateGranted(j)
    \/ \E j \in GateJobs : GateLeave(j)

\* the global slot under every interleaving of the jobs that reach it
GateSpec == Init /\ [][GateNext]_vars
\* the event loop resumes every task whose await is over, every awaited
\* call of the messaging client returns or raises, every conversion ends
GateFairSpec == GateSpec /\ \A j \in GateJobs : WF_vars(GateStep(j))

\* ------------------------------------------------------------ users table
\* The users table of metrics_db and the calls that write it.  A row is
\* [first |-> first_seen_ts, last |-> last_seen_ts, banned |-> is_banned];
\* store.now is int(time.time()); store.seenEvents counts the user_seen rows
\* of the events table; store.op is the last call, with its arguments.
\* an upsert that writes the whole row anew
UpsertRowReplace(users, u, now) ==
    Put(users, u, [first |-> now, last |-> now, banned |-> FALSE])
\* the users statement of upsert_user_seen: INSERT for an unknown user,
\* else UPDATE of username, full_name and last_seen_ts (both backends)
UpsertRow(users, u, now) ==
    IF u \notin DOMAIN users
    THEN Put(users, u, [first |-> now, last |-> now, banned |-> FALSE])
    ELSE [users EXCEPT ![u].last = now]

\* the users statement of set_banned; pg: the PostgreSQL backend, whose
\* update also sets last_seen_ts = GREATEST(last_seen_ts, now)
BanRow(users, u, b, now, pg) ==
    IF u \notin DOMAIN users
    THEN Put(users, u, [first |-> now, last |-> now, banned |-> b])
    ELSE IF pg
    THEN [users EXCEPT ![u].banned = b, ![u].last = Max(@, now)]
    ELSE [users EXCEPT ![u].banned = b]

\* metrics_db.is_banned on the table
RowBanned(users, u) == IF u \in DOMAIN users THEN users[u].banned ELSE FALSE

\* _track_user of any handler: metrics_db.upsert_user_seen
StoreUpsert(u) ==
    /\ store.seenEvents < MaxSeenEvents
    /\ store' = [store EXCEPT !.users = UpsertRow(@, u, store.now),
                             !.seenEvents = @ + 1,
                             !.op = <<"upsert_user_seen", u, FALSE>>]
    /\ UNCHANGED <<lifecycle, build, prog, gate>>

\* the admin bot: metrics_db.set_banned
StoreSetBanned(u, b, pg) ==
    /\ store' = [store EXCEPT !.users = BanRow(@, u, b, store.now, pg),
                             !.op = <<"set_banned", u, b>>]
    /\ UNCHANGED <<lifecycle, build, prog, gate>>

\* a second passes
StoreTick ==
    /\ store.now < MaxStoreClock
    /\ store' = [store EXCEPT !.now = @ + 1, !.op = <<"tick", None, FALSE>>]
    /\ UNCHANGED <<lifecycle, build, prog, gate>>

StoreNext ==
    \/ \E u \in Users : StoreUpsert(u)
    \/ \E u \in Users, b, pg \in BOOLEAN : StoreSetBanned(u, b, pg)
    \/ StoreTick

\* the users table under every sequence of calls
StoreSpec == Init /\ [][StoreNext]_vars

\* ================================================================ claims
\* pc values inside convert_video_to_circle (the global slot is held)
ConvertPcs ==
    {"download", "probe", "audio", "status", "spawn", "read", "progress_edit",
     "wait_exit", "kill_wait", "timeout_edit", "fail_edit", "deliver",
     "final_edit", "exc_edit"}
\* pc values inside "async with lock" (the per-user lock is held)
UserHeldPcs == ConvertPcs \cup {"notice", "gwait"}
Rejections ==
    {"banned", "duplicate", "busy", "file_size_limit", "duration_limit",
     "duration_limit_for_meme"}

InConvert == {j \in Jobs : pc[j] \in ConvertPcs}
HoldsUser(u) == {j \in Jobs : pc[j] \in UserHeldPcs /\ msg[j].user = u}
\* an earlier job of user u is in flight
InFlight(u) == HoldsUser(u) # {}
Arrives(j) == pc[j] = "idle" /\ pc'[j] # "idle"
Started(j) == Count(events[j], "video_start") > 0

\* C1: at every instant at most one job holds the global slot, i.e. at most
\* one job is inside convert_video_to_circle, for any interleaving of
\* submissions of any users.
C1_GlobalSlotExclusive ==
    /\ Cardinality(InConvert) <= 1
    /\ glock.holders = InConvert
    /\ glock.locked <=> InConvert # {}
\* a job of one user transcodes while a job of another user waits for the slot
C1_Witness ==
    \E i, j \in Jobs :
        /\ pc[i] \in ConvertPcs /\ pc[j] = "gwait"
        /\ msg[i].user # msg[j].user

\* C2: for every user at most one job holds the user's lock, and no job ever
\* waits for a user lock: a submission that passes the locked() test takes
\* the lock in the same run of its task, so no second submission of the user
\* passes the test in between.
C2_UserLockExclusive ==
    /\ \A j \in Jobs : pc[j] # "uwait"
    /\ \A u \in DOMAIN ulocks :
        /\ Cardinality(ulocks[u].holders) <= 1
        /\ ulocks[u].waiters = <<>>
        /\ ulocks[u].holders = HoldsUser(u)
        /\ ulocks[u].locked <=> HoldsUser(u) # {}
\* a user's job holds the user lock while a later submission of the same
\* user has been through the lock check
C2_Witness ==
    \E i, j \in Jobs :
        /\ i # j /\ msg[i].user = msg[j].user
        /\ pc[i] \in UserHeldPcs /\ i \in ulocks[msg[i].user].holders
        /\ pc[j] = "reply" /\ outcome[j] \in {"busy"}

\* C3 as stated: a submission of user U arriving while an earlier job of U
\* is in flight is answered with the busy message, is never queued, never
\* takes the global slot and never logs video_start.
C3_BusyAnswerOriginal ==
    /\ [][\A j \in Jobs :
            (Arrives(j) /\ InFlight(msg'[j].user))
                => (pc'[j] = "reply" /\ outcome'[j] = "busy")]_vars
    /\ [](\A j \in Jobs :
            outcome[j] \in Rejections
                => /\ pc[j] \in {"reply", "done"}
                   /\ ~Started(j)
                   /\ j \notin glock.holders)
\* C3 as amended: such a submission is rejected at once, with the ban answer
\* when U is banned, with the single-video answer when it is a duplicate
\* part of a grouped upload, and with the busy message otherwise; it is never
\* queued, never takes the global slot and never logs video_start.
C3_BusyAnswer ==
    /\ [][\A j \in Jobs :
            (Arrives(j) /\ InFlight(msg'[j].user))
                => /\ pc'[j] = "reply"
                   /\ outcome'[j] =
                        IF IsBanned(msg'[j].user) THEN "banned"
                        ELSE IF GroupVerdict(msg'[j]) = "duplicate" THEN "duplicate"
                        ELSE "busy"]_vars
    /\ [](\A j \in Jobs :
            outcome[j] \in Rejections
                => /\ pc[j] \in {"reply", "done"}
                   /\ ~Started(j)
                   /\ j \notin glock.holders
                   /\ \A k \in 1..Len(glock.waiters) : glock.waiters[k] # j)
\* a submission got the busy answer while the earlier job of its user is
\* inside the transcode
C3_Witness ==
    \E i, j \in Jobs :
        /\ i < j /\ msg[i].user = msg[j].user
        /\ pc[i] \in ConvertPcs
        /\ pc[j] = "reply" /\ outcome[j] = "busy" /\ events[j] = <<>>

\* C4 as stated: at most one transcode subprocess is alive system-wide, and
\* when a job has left convert_video_to_circle, on any exit path, the
\* subprocess it spawned has exited.
C4_OneSubprocess ==
    /\ Cardinality({j \in Jobs : Alive(proc[j])}) <= 1
    /\ \A j \in Jobs : pc[j] = "done" => ~Alive(proc[j])

\* C5: a job in a terminal state holds neither the global slot nor its
\* per-user lock, and a lock is locked only while a live job holds it.
C5_NoLockHeldByFinished ==
    /\ \A j \in Jobs :
        pc[j] = "done" =>
            /\ j \notin glock.holders
            /\ \A u \in DOMAIN ulocks : j \notin ulocks[u].holders
    /\ glock.locked => \E j \in Jobs : pc[j] \in ConvertPcs
    /\ \A u \in DOMAIN ulocks : ulocks[u].locked => \E j \in Jobs : pc[j] \in UserHeldPcs
\* one job ended on an exception that left convert_video_to_circle, another
\* on a failed queued notice, and every lock is free again
C5_Witness ==
    /\ \E j \in Jobs : pc[j] = "done" /\ outcome[j] = "raised"
    /\ \E j \in Jobs : pc[j] = "done" /\ outcome[j] = "notice_failed"
    /\ ~glock.locked
    /\ \A u \in DOMAIN ulocks : ~ulocks[u].locked

\* C6 as stated: after a job has terminated on any path, neither its input
\* file nor its output file exists.
C6_FilesAbsent ==
    \A j \in Jobs : pc[j] = "done" => (~inFile[j] /\ ~outFile[j])

\* C7 as stated: a subprocess that is alive more than 300 s after its spawn
\* is killed by the supervisor, whatever its diagnostic stream does: while
\* it is alive and overdue, and no exception has ended the supervision, the
\* supervisor is at a point of the loop from which the wall-clock check is
\* reached.
C7_OverdueIsKilled ==
    \A j \in Jobs :
        (Alive(proc[j]) /\ elapsed[j] > TranscodeTimeout /\ pc[j] # "exc_edit")
            => pc[j] \in {"read", "progress_edit"}

\* C8 as stated: every submission rejected at validation has recorded
\* exactly one lifecycle event.
C8_OneEventPerRejection ==
    \A j \in Jobs : outcome[j] \in Rejections => Len(events[j]) = 1

\* C9 as stated: a job that logged video_start logs exactly one terminal
\* event, video_success or video_error, never both and never neither, and
\* video_success only after exit code 0.
C9_OneTerminalEvent ==
    \A j \in Jobs :
        LET terminal == Count(events[j], "video_success") + Count(events[j], "video_error")
        IN  /\ terminal <= 1
            /\ (pc[j] = "done" /\ Started(j)) => terminal = 1
            /\ Count(events[j], "video_success") > 0 => proc[j] = "exit0"

\* C10: for a grouped-upload key K and the parts that reach the group check
\* (their sender is not banned): a part arriving while K has no live entry
\* (never seen, or expired) is recorded as the first part and an expiry of
\* 300 s is scheduled; a part with another message id arriving while the
\* entry is live is rejected as duplicate and changes nothing; the entry is
\* live until its 300 s are over and is removed before more time passes.
C10_GroupSuppressor ==
    /\ [][\A j \in Jobs :
            (Arrives(j) /\ msg'[j].group # None /\ ~IsBanned(msg'[j].user))
                => LET k == msg'[j].group
                   IN  IF k \notin DOMAIN mgfm
                       THEN /\ outcome'[j] # "duplicate"
                            /\ k \in DOMAIN mgfm' /\ mgfm'[k] = msg'[j].mid
                            /\ forget'[k] = Append(forget[k], GroupTtl)
                       ELSE /\ mgfm' = mgfm /\ forget' = forget
                            /\ mgfm[k] # msg'[j].mid => outcome'[j] = "duplicate"]_vars
    /\ [][\A k \in Groups :
            (k \in DOMAIN mgfm /\ k \notin DOMAIN mgfm')
                => (forget[k] # <<>> /\ Head(forget[k]) = 0)]_vars
    /\ [](\A k \in Groups :
            (forget[k] # <<>> /\ Head(forget[k]) > 0) => k \in DOMAIN mgfm)
\* a second part with another message id was rejected while the entry of
\* its key, recorded for the first part, is live
C10_Witness ==
    \E j \in Jobs :
        /\ pc[j] = "reply" /\ outcome[j] = "duplicate"
        /\ msg[j].group \in DOMAIN mgfm
        /\ mgfm[msg[j].group] # msg[j].mid
        /\ forget[msg[j].group] # <<>>

\* the outcome video_to_circle gives message m in the current state
OutcomeOf(m) == IF Verdict(m) = "accept" THEN "" ELSE Verdict(m)

\* C11: a re-delivered part (same group key and same message id as the
\* recorded first part) passes the group check again: it is never answered
\* as a duplicate and is judged as the same message without a group key
\* would be; it leaves _media_group_first_message unchanged and adds no
\* expiry task.
C11_RedeliveryIdempotent ==
    [][\A j \in Jobs :
        (/\ Arrives(j)
         /\ msg'[j].group \in DOMAIN mgfm
         /\ mgfm[msg'[j].group] = msg'[j].mid)
            => /\ mgfm' = mgfm
               /\ forget' = forget
               /\ outcome'[j] # "duplicate"
               /\ outcome'[j] = OutcomeOf([msg'[j] EXCEPT !.group = None])]_vars
\* the first part of a group is being transcoded, its re-delivery went
\* through the group check to the lock check, and one expiry is pending
C11_Witness ==
    \E i, j \in Jobs :
        /\ i < j /\ msg[j] = msg[i] /\ msg[j].group # None
        /\ pc[i] \in ConvertPcs
        /\ pc[j] = "reply" /\ outcome[j] = "busy"
        /\ mgfm[msg[j].group] = msg[j].mid
        /\ Len(forget[msg[j].group]) = 1

\* message m gets as far as the size check: its sender is not banned, it is
\* not a duplicate part and the lock of its sender is free
ReachesSizeCheck(m) ==
    /\ ~IsBanned(m.user)
    /\ GroupVerdict(m) # "duplicate"
    /\ ~Locked(Get(ulocks, m.user, FreeLock))
Rejected(reason) == <<Ev("video_rejected", reason)>>

\* C12: every submission of at least 8*1024*1024 bytes is rejected at once
\* and no rejected submission ever has a subprocess; when it reaches the
\* size check its only event is video_rejected with file_size_limit; a
\* submission of 8*1024*1024 - 1 bytes is never rejected for its size.
C12_SizeLimit ==
    /\ [][\A j \in Jobs :
            Arrives(j) =>
                /\ msg'[j].size >= SizeLimit
                     => /\ pc'[j] = "reply"
                        /\ outcome'[j] \in Rejections
                        /\ ReachesSizeCheck(msg'[j])
                             => /\ outcome'[j] = "file_size_limit"
                                /\ events'[j] = Rejected("file_size_limit")
                /\ msg'[j].size = SizeLimit - 1
                     => outcome'[j] # "file_size_limit"]_vars
    /\ [](\A j \in Jobs :
            outcome[j] \in Rejections => (proc[j] = "none" /\ pc[j] \in {"reply", "done"}))
\* a file of exactly the limit was rejected for its size while a file one
\* byte smaller has a running subprocess
C12_Witness ==
    \E i, j \in Jobs :
        /\ pc[i] = "reply" /\ msg[i].size = SizeLimit
        /\ outcome[i] = "file_size_limit"
        /\ events[i] = Rejected("file_size_limit") /\ proc[i] = "none"
        /\ msg[j].size = SizeLimit - 1 /\ proc[j] = "running"

\* C13 as stated: every submission longer than 60 s is rejected with
\* duration_limit, and every meme submission longer than 55 s and not
\* longer than 60 s with duration_limit_for_meme.
C13_DurationLimitsOriginal ==
    [][\A j \in Jobs :
        Arrives(j) =>
            /\ msg'[j].dur > DurationLimit => outcome'[j] = "duration_limit"
            /\ (/\ Get(userEffect, msg'[j].user, "normal") = "meme"
                /\ msg'[j].dur > MemeDurationLimit
                /\ msg'[j].dur <= DurationLimit)
                    => outcome'[j] = "duration_limit_for_meme"]_vars
\* C13 as amended: a submission that reaches the duration checks (sender not
\* banned, not a duplicate part, sender not busy, size below the limit) is
\* rejected with duration_limit when longer than 60 s, with
\* duration_limit_for_meme when the effect is meme and it is longer than
\* 55 s, and passes otherwise: exactly 60 s passes for another effect and
\* exactly 55 s passes for meme.
C13_DurationLimits ==
    [][\A j \in Jobs :
        (Arrives(j) /\ ReachesSizeCheck(msg'[j]) /\ msg'[j].size < SizeLimit)
            => LET m == msg'[j]
                   meme == Get(userEffect, m.user, "normal") = "meme"
               IN  IF m.dur > DurationLimit
                   THEN /\ outcome'[j] = "duration_limit"
                        /\ events'[j] = Rejected("duration_limit")
                   ELSE IF meme /\ m.dur > MemeDurationLimit
                   THEN /\ outcome'[j] = "duration_limit_for_meme"
                        /\ events'[j] = Rejected("duration_limit_for_meme")
                   ELSE /\ outcome'[j] = ""
                        /\ pc'[j] # "reply"]_vars
\* with the meme effect chosen, a submission of exactly 60 s was rejected
\* for the meme limit and one of exactly 55 s is being transcoded
C13_Witness ==
    \E i, j \in Jobs :
        /\ pc[i] = "reply" /\ msg[i].dur = DurationLimit
        /\ outcome[i] = "duration_limit_for_meme"
        /\ pc[j] \in ConvertPcs /\ effect[j] = "meme"
        /\ msg[j].dur = MemeDurationLimit

\* job j has asked for the global slot: it holds it or waits for it
AskedSlot(gl, j) ==
    j \in gl.holders \/ \E k \in 1..Len(gl.waiters) : gl.waiters[k] = j

\* C14: the outcome of a submission is that of the first failing check in
\* the order ban, duplicate group part, busy user, file size, duration,
\* meme duration; a rejected submission leaves the global slot alone, and
\* only a submission that passed all six asks for the slot (after the
\* queued notice when the slot is held).
C14_CheckOrder ==
    [][\A j \in Jobs :
        Arrives(j) =>
            LET m == msg'[j]
                first ==
                    IF IsBanned(m.user) THEN "banned"
                    ELSE IF m.group \in DOMAIN mgfm /\ mgfm[m.group] # m.mid
                         THEN "duplicate"
                    ELSE IF m.user \in DOMAIN ulocks /\ ulocks[m.user].locked
                         THEN "busy"
                    ELSE IF m.size >= SizeLimit THEN "file_size_limit"
                    ELSE IF m.dur > DurationLimit THEN "duration_limit"
                    ELSE IF /\ m.user \in DOMAIN userEffect
                            /\ userEffect[m.user] = "meme"
                            /\ m.dur > MemeDurationLimit
                         THEN "duration_limit_for_meme"
                    ELSE ""
            IN  /\ outcome'[j] = first
                /\ first # "" => (pc'[j] = "reply" /\ glock' = glock)
                /\ first = "" =>
                        IF glock.locked THEN pc'[j] = "notice" /\ glock' = glock
                        ELSE AskedSlot(glock', j)]_vars
\* a busy user's file that is too large and too long got the busy answer
\* and no event, while the user's earlier job is being transcoded
C14_Witness ==
    \E i, j \in Jobs :
        /\ i # j /\ msg[i].user = msg[j].user /\ pc[i] \in ConvertPcs
        /\ pc[j] = "reply" /\ outcome[j] = "busy" /\ events[j] = <<>>
        /\ msg[j].size >= SizeLimit /\ msg[j].dur > DurationLimit

\* the rejections of the size, duration and meme-duration checks
LimitReasons == {"file_size_limit", "duration_limit", "duration_limit_for_meme"}
\* job j holds or waits for no lock
HoldsNoLock(j) ==
    /\ ~AskedSlot(glock, j)
    /\ \A u \in DOMAIN ulocks : ~AskedSlot(ulocks[u], j)

\* C15: a submission rejected by the size, duration or meme-duration check
\* records its video_rejected event and nothing else: no video_start, no
\* temporary file, no subprocess; it acquires neither the per-user lock
\* (the lock object of its sender is left as it was, or created free) nor
\* the global slot, and its answer changes none of these.
C15_RejectionFrame ==
    /\ [][\A j \in Jobs :
            (Arrives(j) /\ outcome'[j] \in LimitReasons)
                => /\ events'[j] = Rejected(outcome'[j])
                   /\ glock' = glock
                   /\ ulocks' = Put(ulocks, msg'[j].user,
                                    Get(ulocks, msg'[j].user, FreeLock))
                   /\ ~Locked(ulocks'[msg'[j].user])
                   /\ UNCHANGED <<proc, inFile, outFile, queued>>]_vars
    /\ [][\A j \in Jobs :
            (pc[j] = "reply" /\ pc'[j] # "reply" /\ outcome[j] \in LimitReasons)
                => /\ pc'[j] = "done"
                   /\ UNCHANGED <<events, glock, ulocks, proc, inFile, outFile,
                                   queued, outcome>>]_vars
    /\ [](\A j \in Jobs :
            outcome[j] \in LimitReasons
                => /\ pc[j] \in {"reply", "done"}
                   /\ events[j] = Rejected(outcome[j])
                   /\ ~Started(j)
                   /\ proc[j] = "none" /\ ~inFile[j] /\ ~outFile[j]
                   /\ queued[j] = 0
                   /\ HoldsNoLock(j))
\* a submission was rejected for its duration and has ended while the job
\* of another user holds the global slot; the lock of its sender is free
C15_Witness ==
    \E i, j \in Jobs :
        /\ pc[i] \in ConvertPcs /\ glock.holders = {i}
        /\ pc[j] = "done" /\ outcome[j] = "duration_limit"
        /\ events[j] = Rejected("duration_limit")
        /\ \E u \in DOMAIN ulocks : u # msg[i].user /\ ~Locked(ulocks[u])

C17_QueuedNotice ==
    /\ [][\A j \in Jobs :
            (Arrives(j) /\ outcome'[j] = "")
                => IF glock.locked
                   THEN queued'[j] = 1 /\ pc'[j] = "notice"
                   ELSE queued'[j] = 0 /\ AskedSlot(glock', j)]_vars
    /\ [][\A j \in Jobs : pc[j] # "idle" => queued'[j] = queued[j]]_vars
    /\ [][\A j \in Jobs :
            (j \notin glock.holders /\ j \in glock'.holders)
                => (pc'[j] = "download" /\ Started(j)')]_vars
    /\ [](\A j \in Jobs : queued[j] <= 1)
\* one job found the slot free, got no notice and has been transcoded; the
\* other found the slot held, got one notice and is inside the transcode
C17_Witness ==
    \E i, j \in Jobs :
        /\ pc[i] = "done" /\ Started(i) /\ queued[i] = 0
        /\ pc[j] \in ConvertPcs /\ Started(j) /\ queued[j] = 1

\* C18 as stated: the global slot is never refused: a job that passed
\* validation does not end without having entered convert_video_to_circle,
\* also when the queued notice could not be sent.
C18_PassedEntersConvert ==
    \A j \in Jobs :
        (pc[j] = "done" /\ outcome[j] \notin Rejections) => Started(j)

\* C20: each job spawns its subprocess at most once: a subprocess starts
\* only for a job that has none yet, a subprocess that has exited is never
\* replaced, a job that has logged video_error is past every spawn, and a
\* finished job stays finished with its outcome and its events.
C20_SingleAttempt ==
    /\ [][\A j \in Jobs :
            /\ (proc'[j] = "starting" /\ proc[j] # "starting") => proc[j] = "none"
            /\ Exited(proc[j]) => proc'[j] = proc[j]
            /\ pc[j] = "done"
                 => (pc'[j] = "done" /\ outcome'[j] = outcome[j]
                     /\ events'[j] = events[j])]_vars
    /\ [](\A j \in Jobs :
            /\ Count(events[j], "video_error") > 0 => pc[j] \in {"exc_edit", "done"}
            /\ outcome[j] # "" => pc[j] \in {"reply", "exc_edit", "done"})
\* one job ended after a non-zero exit code, the other after the timeout
\* kill; each has logged its video_error and its subprocess stays exited
C20_Witness ==
    \E i, j \in Jobs :
        /\ pc[i] = "done" /\ outcome[i] = "transcode_failed" /\ proc[i] = "exit1"
        /\ Count(events[i], "video_error") = 1
        /\ pc[j] = "done" /\ outcome[j] = "timeout" /\ proc[j] = "killed"
        /\ Count(events[j], "video_error") = 1

\* C19 as stated: under fair scheduling every job that waits for the global
\* slot eventually holds it and eventually reaches a terminal state.
C19_NoJobDropped ==
    \A j \in Jobs :
        /\ (pc[j] = "gwait") ~> (pc[j] \in ConvertPcs)
        /\ (pc[j] = "gwait") ~> (pc[j] = "done")

\* pc values inside the try block of convert_video_to_circle
TryPcs == ConvertPcs \ {"exc_edit"}
\* the texts "except Exception" stores
ErrorTexts == {"exception", "ValueError"}
\* lengths of exception texts around the limit
ErrorLens == {0, ErrorTextLimit - 1, ErrorTextLimit, ErrorTextLimit + 1, 8 * ErrorTextLimit}
\* the step of job j in which an await inside the try block raises
Raises(j) ==
    /\ pc[j] \in TryPcs
    /\ \/ pc'[j] = "exc_edit"
       \/ pc'[j] = "done" /\ outcome'[j] = "exception"

\* C21: an exception raised at any await between the download and the
\* final status edit is caught inside convert_video_to_circle: the step
\* records one more video_error, whose stored text has at most 500
\* characters; the job ends by the handler, and when it ends the cleanup
\* has removed both files unless a live subprocess still holds them (none
\* does when the exception came before the spawn).
C21_ExceptionCaught ==
    /\ [][\A j \in Jobs :
            Raises(j) =>
                \E text \in ErrorTexts :
                    events'[j] = Append(events[j], Ev("video_error", text))]_vars
    /\ [][\A j \in Jobs :
            (pc[j] # "done" /\ pc'[j] = "done" /\ outcome'[j] \in {"exception", "raised"})
                => /\ pc[j] \in {"download", "probe", "audio", "status", "exc_edit"}
                   /\ Count(events'[j], "video_error") >= 1
                   /\ Alive(proc[j]) \/ (~inFile'[j] /\ ~outFile'[j])]_vars
    /\ [](\A j \in Jobs :
            /\ pc[j] = "exc_edit" => Count(events[j], "video_error") >= 1
            /\ (pc[j] = "done" /\ proc[j] = "none") => (~inFile[j] /\ ~outFile[j]))
    /\ [](\A n \in ErrorLens :
            StoredLen(n) <= ErrorTextLimit /\ (n <= ErrorTextLimit => StoredLen(n) = n))
\* the delivery raised after exit code 0: the job has ended by the handler,
\* one video_error and no video_success is recorded, both files are gone
C21_Witness ==
    \E j \in Jobs :
        /\ pc[j] = "done" /\ outcome[j] = "exception" /\ proc[j] = "exit0"
        /\ Count(events[j], "video_error") = 1
        /\ Count(events[j], "video_success") = 0
        /\ ~inFile[j] /\ ~outFile[j]

\* the last event recorded for job j is the video_error of a failed probe
ProbeFailed(j) ==
    /\ events[j] # <<>>
    /\ events[j][Len(events[j])] = Ev("video_error", "ValueError")

\* C22: when the duration probe fails, the job ends in that step: one
\* video_error is recorded, no subprocess was or will be spawned, both
\* temporary files are removed, and the job never leaves that state.
C22_ProbeFailureFatal ==
    /\ [][\A j \in Jobs :
            (pc[j] = "probe" /\ pc'[j] \notin {"probe", "audio"})
                => /\ pc'[j] = "done"
                   /\ outcome'[j] = "exception"
                   /\ events'[j] = Append(events[j], Ev("video_error", "ValueError"))
                   /\ proc'[j] = "none"
                   /\ ~inFile'[j] /\ ~outFile'[j]
                   /\ j \notin glock'.holders]_vars
    /\ [](\A j \in Jobs :
            ProbeFailed(j)
                => /\ pc[j] = "done"
                   /\ proc[j] = "none"
                   /\ ~inFile[j] /\ ~outFile[j]
                   /\ Count(events[j], "video_error") = 1
                   /\ Count(events[j], "video_success") = 0)
\* a job whose probe failed after the download has ended: video_start and
\* the video_error of the probe are recorded, nothing was spawned, the
\* downloaded file is gone and the global slot is free
C22_Witness ==
    \E j \in Jobs :
        /\ pc[j] = "done" /\ outcome[j] = "exception"
        /\ events[j] = <<Ev("video_start", ""), Ev("video_error", "ValueError")>>
        /\ proc[j] = "none" /\ ~inFile[j] /\ ~outFile[j]
        /\ ~glock.locked

\* the delivery of job j raised: the handler is editing the status
DeliveryFailed(j) == pc[j] = "exc_edit" /\ outcome[j] = "deliver"
\* job j has ended after its subprocess was killed for the timeout
TimedOut(j) == pc[j] = "done" /\ proc[j] = "killed"

\* C23 as stated: a job whose delivery raised after exit code 0 has no
\* video_success, and what is recorded for it differs from what is
\* recorded for a job that ended by the timeout.
C23_DeliveryDistinct ==
    \A i \in Jobs :
        DeliveryFailed(i) =>
            /\ Count(events[i], "video_success") = 0
            /\ \A j \in Jobs : TimedOut(j) => events[j] # events[i]

\* ---------------------------------------------------------------- C24..C28
\* a command has been built
Built == build # NoBuild
\* the command the builders give for the normal effect on the same inputs
NormalCmd(d, a) == BuildFfmpegCmd(d, "normal", a, TRUE, 0, 0)
\* the requested effect was replaced by normal
Downgraded ==
    /\ build.effect \in {"speed_slow", "flash", "meme", "speed"}
    /\ build.cmd = NormalCmd(build.duration, build.audio)

\* C24: the downgrade of an effect is deterministic.  A speed_slow command
\* built for an effective duration below 3.0 s, or for an input without
\* audio, equals the normal command for the same inputs; a flash or meme
\* command built for an input without audio equals the normal command; and a
\* downgraded command is the same for every value the random draws can take.
C24_DowngradeDeterministic ==
    Built =>
        LET normal == NormalCmd(build.duration, build.audio)
        IN  /\ ( /\ build.effect = "speed_slow"
                 /\ \/ Min(build.duration, Sec(60)) < Sec(3)
                    \/ ~build.audio )
               => build.cmd = normal
            /\ (build.effect \in {"flash", "meme"} /\ ~build.audio)
               => build.cmd = normal
            /\ Downgraded =>
                 \A x \in FirstDraws(build.effect, build.duration,
                                     build.audio, build.memes),
                    y \in SecondDraws(build.effect, build.duration,
                                      build.audio) :
                     BuildFor(build.effect, build.duration, build.audio,
                              build.flash, build.memes, x, y) = normal
\* a speed_slow command was built for a 2.0 s clip with audio, and a flash
\* command was downgraded after its random draw gave a non-zero start
C24_Witness ==
    /\ Built
    /\ \/ /\ build.effect = "speed_slow" /\ build.audio
          /\ build.duration = Sec(2) /\ build.cmd.kind = "plain"
       \/ /\ build.effect = "flash" /\ build.audio /\ ~build.flash
          /\ build.x > 0 /\ build.cmd.kind = "plain"

\* C25: whenever a requested effect is downgraded to normal (no audio, clip
\* too short, missing stock asset), the orchestrator records a downgrade
\* event while it builds the command.
C25_DowngradeLogged ==
    (Built /\ Downgraded) => Len(build.logged) > 0

\* C26: for every effect except a meme that is not downgraded, and for every
\* probed duration, the value of -t is min(raw duration, 60 s); for every
\* effect and every probed duration the value of -t is at most 60 s.
C26_OutputCap ==
    Built =>
        /\ ~(build.effect = "meme" /\ build.cmd.kind = "meme")
           => build.cmd.t = Min(build.duration, Sec(60))
        /\ build.cmd.t <= Sec(60)
\* a shake command was built for a clip probed at more than 60 s
C26_Witness ==
    /\ Built
    /\ build.effect = "shake" /\ build.duration > Sec(60)
    /\ build.cmd.kind = "shake" /\ build.cmd.t = Sec(60)

\* C27: a meme command that is not downgraded has -t equal to
\* min(60, effective duration + 5) and its insertion point inside
\* [0, effective duration]; only a meme command has -t above the effective
\* duration; a downgraded meme has the -t of the normal command.
C27_MemeCap ==
    Built =>
        LET eff == Min(build.duration, Sec(60))
        IN  /\ build.cmd.kind = "meme"
               => /\ build.effect = "meme"
                  /\ build.cmd.t = Min(Sec(60), eff + Sec(5))
                  /\ build.cmd.args[3] >= 0
                  /\ build.cmd.args[3] <= eff
            /\ build.cmd.t > eff => build.cmd.kind = "meme"
            /\ (build.effect = "meme" /\ build.cmd.kind # "meme")
               => build.cmd.t = NormalCmd(build.duration, build.audio).t
\* a meme was inserted at a point after the start of a 59.5 s clip, where
\* the sum with the 5 s of the stock clip goes over 60 s
C27_Witness ==
    /\ Built
    /\ build.cmd.kind = "meme" /\ build.duration = Sec(60) - 1
    /\ build.x > 0 /\ build.cmd.args[3] = build.x
    /\ build.cmd.t = Sec(60)

\* C28: for every effective duration d >= 3.0 s with audio and every pair of
\* draws in [0, d - 1.5], the two speed_slow segments are ordered, 1.5 s
\* long, disjoint and inside the clip:
\* 0 <= t1, t1_end = t1 + 1.5 <= t2, t2_end = t2 + 1.5 <= d.
C28_SegmentsDisjoint ==
    (Built /\ build.cmd.kind = "speed_slow") =>
        LET t1 == build.cmd.args[1]
            t1_end == build.cmd.args[2]
            t2 == build.cmd.args[3]
            t2_end == build.cmd.args[4]
            d == Min(build.duration, Sec(60))
            half == Sec(3) \div 2
        IN  /\ 0 <= t1
            /\ t1_end = t1 + half
            /\ t1_end <= t2
            /\ t2_end = t2 + half
            /\ t2_end <= d

\* ---------------------------------------------------------------- C29, C30
\* a progress value has been pushed to the status message
Pushed == prog # NoProg /\ prog.percent # NoPush

\* C29: every progress value pushed to the status message is an integer in
\* [0, 100]: the parsed timestamp divided by the target duration (the length
\* of the output the subprocess is writing), times 100, clamped to 100.
C29_ProgressOfTarget ==
    Pushed =>
        /\ prog.percent \in 0..100
        /\ prog.percent =
             (IF (prog.stamp * 100) \div prog.target > 100
              THEN 100
              ELSE (prog.stamp * 100) \div prog.target)

\* C30: any two consecutive progress updates of one job are pushed at least
\* one second of wall-clock time apart, whatever the rate of the lines.
C30_RateLimited ==
    (Pushed /\ prog.prev # NoPush) => prog.at - prog.prev >= Sec(1)
\* two updates were pushed exactly one second apart, and the second edit
\* has returned
C30_Witness ==
    /\ Pushed
    /\ prog.prev # NoPush
    /\ prog.at - prog.prev = Sec(1)
    /\ prog.phase = "read"
    /\ prog.last_update = prog.at

\* ---------------------------------------------------------------- C31..C38
\* submission j is handled in this step, with message m
Handled(j) == pc[j] = "idle" /\ pc'[j] # "idle"
\* the answers of a first part that was rejected after the group check
LateRejections == {"busy", "file_size_limit", "duration_limit",
                   "duration_limit_for_meme"}

\* C31: the lifetime of a grouped-upload entry does not depend on the job
\* of its first part.  A first part that reaches the group check records
\* the entry whatever its own answer is; no step of any job removes or
\* changes a recorded entry; the entry goes exactly when its 300 s sleep is
\* over; and a part with another message id that arrives while the entry is
\* present is rejected as duplicate, also when the first part was rejected.
C31_EntryOutlivesJob ==
    [][\A k \in Groups :
        /\ \A j \in Jobs :
             (Handled(j) /\ msg'[j].group = k /\ ~IsBanned(msg'[j].user))
             => /\ k \in DOMAIN mgfm'
                /\ k \notin DOMAIN mgfm => mgfm'[k] = msg'[j].mid
                /\ (k \in DOMAIN mgfm /\ mgfm[k] # msg'[j].mid)
                   => outcome'[j] = "duplicate"
        /\ (k \in DOMAIN mgfm /\ pc' # pc)
           => (k \in DOMAIN mgfm' /\ mgfm'[k] = mgfm[k])
        /\ (k \in DOMAIN mgfm /\ k \notin DOMAIN mgfm')
           => (forget[k] # <<>> /\ Head(forget[k]) = 0)
        /\ Len(forget'[k]) < Len(forget[k]) => k \notin DOMAIN mgfm'
      ]_vars
\* the first part was rejected for its size, its entry is still present and
\* a second part has been rejected as duplicate
C31_Witness ==
    \E k \in Groups, i, j \in Jobs :
        /\ k \in DOMAIN mgfm /\ mgfm[k] = i
        /\ outcome[i] \in LateRejections
        /\ j # i /\ outcome[j] = "duplicate"

\* C32: a per-user lock is created at the first submission of the user that
\* reaches the lock check, not before; from then on the user's entry in
\* _user_locks is never removed, and it is never replaced by another lock:
\* whoever holds or waits for the lock of the entry still does after every
\* step, unless that job itself moved.
C32_UserLockKept ==
    [][/\ \A j \in Jobs :
            (Handled(j) /\ outcome'[j] \notin {"banned", "duplicate"})
            => msg'[j].user \in DOMAIN ulocks'
       /\ \A u \in Users :
            /\ (u \notin DOMAIN ulocks /\ u \in DOMAIN ulocks')
               => \E j \in Jobs :
                     /\ Handled(j) /\ msg'[j].user = u
                     /\ outcome'[j] \notin {"banned", "duplicate"}
            /\ u \in DOMAIN ulocks
               => /\ u \in DOMAIN ulocks'
                  /\ \A j \in ulocks[u].holders :
                        j \in ulocks'[u].holders \/ pc'[j] # pc[j]
                  /\ \A i \in 1..Len(ulocks[u].waiters) :
                        LET j == ulocks[u].waiters[i]
                        IN  \/ \E n \in 1..Len(ulocks'[u].waiters) :
                                 ulocks'[u].waiters[n] = j
                            \/ pc'[j] # pc[j]
      ]_vars
\* the first job has finished, its user's entry is still there, and the
\* second job, of the same user, holds the lock of that entry
C32_Witness ==
    /\ pc[1] = "done"
    /\ outcome[1] \notin {"banned", "duplicate"}
    /\ msg[2].user \in DOMAIN ulocks
    /\ 2 \in ulocks[msg[2].user].holders
    /\ Cardinality(DOMAIN ulocks) = 1

\* C33: for every grouped-upload key the number of pending
\* _forget_media_group tasks is 1 when the key is present in
\* _media_group_first_message and 0 when it is absent; an entry is recorded
\* together with a sleep of the full 300 s, and the task whose sleep is over
\* removes the entry it was scheduled for.
C33_OneExpiryPerEntry ==
    /\ [](\A k \in Groups :
            Len(forget[k]) = (IF k \in DOMAIN mgfm THEN 1 ELSE 0))
    /\ [][\A k \in Groups :
            /\ (k \notin DOMAIN mgfm /\ k \in DOMAIN mgfm')
               => forget'[k] = <<GroupTtl>>
            /\ (k \in DOMAIN mgfm /\ k \in DOMAIN mgfm')
               => /\ mgfm'[k] = mgfm[k]
                  /\ forget'[k][1] <= forget[k][1]
            /\ (k \in DOMAIN mgfm /\ k \notin DOMAIN mgfm')
               => forget[k] = <<0>>
         ]_vars
\* the entry of the second submission has lived its 300 s and its expiry
\* task, the only one pending, is about to remove it
C33_Witness ==
    \E k \in Groups :
        /\ k \in DOMAIN mgfm /\ mgfm[k] = 2
        /\ forget[k] = <<0>>

\* C34: every job that is suspended waiting for the global slot has been
\* sent the queued notice before it suspended, also a job that reaches the
\* slot just after a release, when the lock reads unlocked while an earlier
\* waiter has been woken and has not taken it yet.
C34_WaiterWasNotified ==
    \A j \in GateJobs : gate.pc[j] = "gwait" => gate.queued[j] >= 1

\* C35: the effect of a job is the user's selection at the moment the
\* submission passes validation ("normal" when the user never selected
\* one); no later step changes the effect of a job that is waiting or
\* transcoding, whatever the user selects meanwhile; and the selection is
\* changed by the effect buttons only, so it stays in force for the user's
\* later submissions.
C35_EffectFixedAtValidation ==
    [][/\ \A j \in Jobs :
            /\ (Handled(j) /\ outcome'[j] = "")
               => effect'[j] = (IF msg'[j].user \in DOMAIN userEffect
                                THEN userEffect[msg'[j].user]
                                ELSE "normal")
            /\ (pc[j] \notin {"idle", "done"} /\ pc'[j] # "done")
               => effect'[j] = effect[j]
       /\ userEffect' # userEffect => (pc' = pc /\ effect' = effect)
       /\ \A u \in DOMAIN userEffect :
            u \in DOMAIN userEffect' /\ (pc' # pc => userEffect'[u] = userEffect[u])
      ]_vars
\* a job converts with the effect it was admitted with while its user has
\* selected another effect since
C35_Witness ==
    \E j \in Jobs :
        /\ pc[j] \in ConvertPcs
        /\ msg[j].user \in DOMAIN userEffect
        /\ userEffect[msg[j].user] = "meme"
        /\ effect[j] = "normal"

\* jobs are suspended in acquire() of the global slot while nobody holds it
SlotFreeWithWaiters == gate.lock.holders = {} /\ gate.lock.waiters # <<>>
\* job j holds, or is suspended waiting for, the global slot
AtSlot(j) ==
    \/ j \in gate.lock.holders
    \/ \E i \in 1..Len(gate.lock.waiters) : gate.lock.waiters[i] = j

\* C36: the gate is deadlock-free.  Every job that holds or waits for the
\* global slot holds its per-user lock, and a job that has ended holds
\* neither (the user lock is taken first and released last); the slot is
\* held by a job inside the conversion only; whenever nobody holds the slot
\* while jobs wait for it, the lock reads unlocked, the first waiter has
\* been woken and its task is ready to resume; and no such state lasts
\* forever: the slot is taken again.
C36_GateDeadlockFree ==
    /\ [](\A j \in GateJobs :
            /\ AtSlot(j) => j \in gate.ulock[j].holders
            /\ j \in gate.lock.holders => gate.pc[j] = "download"
            /\ gate.pc[j] = "done"
               => (~AtSlot(j) /\ j \notin gate.ulock[j].holders))
    /\ [](SlotFreeWithWaiters
            => /\ ~gate.lock.locked
               /\ gate.lock.woken
               /\ gate.pc[Head(gate.lock.waiters)] = "gwait")
    /\ (SlotFreeWithWaiters ~> gate.lock.holders # {})
\* the holder has left and released the slot while two jobs wait for it
C36_Witness ==
    /\ SlotFreeWithWaiters
    /\ Len(gate.lock.waiters) = 2
    /\ \E j \in GateJobs : gate.pc[j] = "done"

\* C37: the ban flag of a user is changed by set_banned only.
\* upsert_user_seen of a known user leaves is_banned and first_seen_ts as
\* they were, so a banned user who sends a further message stays banned;
\* no other step changes a row; set_banned creates an unknown user, and
\* after set_banned(u, b) is_banned(u) returns b.
C37_BanOnlyBySetBanned ==
    [][LET call == store'.op
           u == call[2]
       IN  /\ \A v \in DOMAIN store.users :
                 /\ v \in DOMAIN store'.users
                 /\ store'.users[v].first = store.users[v].first
                 /\ (call[1] # "set_banned" \/ v # u)
                    => RowBanned(store'.users, v) = RowBanned(store.users, v)
           /\ call[1] = "upsert_user_seen"
              => /\ u \in DOMAIN store'.users
                 /\ RowBanned(store'.users, u) = RowBanned(store.users, u)
           /\ call[1] = "set_banned"
              => /\ u \in DOMAIN store'.users
                 /\ RowBanned(store'.users, u) = call[3]
      ]_vars
\* a user banned at an earlier time has sent a message and is still banned
C37_Witness ==
    /\ store.op[1] = "upsert_user_seen"
    /\ store.op[2] \in DOMAIN store.users
    /\ store.users[store.op[2]].banned
    /\ store.users[store.op[2]].last > store.users[store.op[2]].first

\* C38: the RuntimeError of _build_ffmpeg_cmd is unreachable from a
\* submission: for every effect, probed duration, audio flag, presence of
\* the stock assets and random draw, the command built for a job is a
\* command line and not the raise, also where a meme or a flash is
\* downgraded through _build_ffmpeg_cmd.
C38_NoRuntimeError ==
    Built =>
        /\ build.cmd # RuntimeError
        /\ build.cmd.kind \in {"plain", "shake", "speed_slow", "flash",
                               "speed", "meme"}
\* a meme with audio was downgraded for want of a stock clip: it went
\* through _build_ffmpeg_cmd and came back as a plain command
C38_Witness ==
    /\ Built
    /\ build.effect = "meme"
    /\ build.cmd.kind = "plain"
    /\ build.audio /\ ~build.memes

====
